---- MODULE Spec2Model ----
(***************************************************************************)
(* Model of src/components/clock.tsx: the Clock component.                 *)
(*                                                                         *)
(*  - the clock face and the hand animator (first effect, lines 29-201),   *)
(*  - the voice list, the voice selection and the Speak button             *)
(*    (second effect and the handlers, lines 203-268).                     *)
(*                                                                         *)
(* Numbers.  The hour hand's value is fractional, (hours % 12) +           *)
(* minutes / 60, so every hand value and every angle is kept in fixed      *)
(* point, in units of 1/Unit: the stored integer is Unit times the number. *)
(* Floating point rounding of the scales is not modelled.                  *)
(***************************************************************************)
EXTENDS Integers, Sequences, FiniteSets

VARIABLES
    lifecycle,     \* first effect: "unmounted", "mounted" or "torn" (cleanup has run)
    now,           \* the Date last read by updateData (None before the first read)
    handData,      \* handData[i].value of the three hands, fixed point
    face,          \* the static face: tick and label angles (None before mount)
    attached,      \* the svg with the hands is in the document
    attr,          \* the rotate(...) angle of each hand line's transform attribute
    pending,       \* a transition scheduled by moveHands that has not started: its targets
    active,        \* the running transition: [from, to, frame], or None
    interrupted,   \* some transition was superseded before it completed
    interval,      \* the setInterval timer: "none", "active" or "cleared"
    periods,       \* one-second periods elapsed since mount
    fired,         \* runs of the interval callback
    platformVoices,        \* how many voices speechSynthesis.getVoices() returns now
    hasVoicesChanged,      \* "onvoiceschanged" in window.speechSynthesis
    voicesEffect,          \* the second effect has run
    onvoiceschanged,       \* the handler of line 212 is installed
    voices,                \* the voices state (None: undefined)
    language,              \* the language state
    activeVoice,           \* activeVoice.current (None: null)
    clickedAt,             \* the Date read by the last onClickHandler
    utterance,             \* the argument of the last speechSynthesis.speak call
    clicks,                \* Speak button clicks handled
    speakCalls,            \* calls of speechSynthesis.speak
    selects,               \* change events of the select handled
    eventValue             \* event.currentTarget.value of the last change event

clockVars == <<lifecycle, now, handData, face, attached, attr, pending, active,
               interrupted, interval, periods, fired>>
speechVars == <<platformVoices, hasVoicesChanged, voicesEffect, onvoiceschanged,
                voices, language, activeVoice, clickedAt, utterance, clicks,
                speakCalls, selects, eventValue>>
vars == <<clockVars, speechVars>>

\* an optional value (undefined, null, nothing scheduled): None, or Some(v) with Get
None == <<>>

Some(v) == <<v>>

Get(o) == o[1]

----------------------------------------------------------------------------
(* Bounds of the model *)

\* number of distinct clock readings new Date() can return in the stateful specifications
NumSamples == 3
\* one-second periods that elapse after mount
MaxPeriods == 3
\* frames a transition paints before its last one
Frames == 2

\* fixed point denominator: the 60 of now.getMinutes() / 60
Unit == 60

----------------------------------------------------------------------------
(* The system clock *)

Time(h, m, s) == [h |-> h, m |-> m, s |-> s]

\* every hour and minute a Date can have (the handlers of the Speak button read no seconds)
AllTimes == {Time(h, m, 0) : h \in 0..23, m \in 0..59}

\* the k-th sampled reading: 0:00:00, 7:13:17, 14:26:34, 21:39:51, ...
Sample(k) == Time((7 * k) % 24, (13 * k) % 60, (17 * k) % 60)

SampleTimes == {Sample(k) : k \in 0..(NumSamples - 1)}

----------------------------------------------------------------------------
(* Scale Mapper: d3.scaleLinear().range([r0, r1]).domain([d0, d1]) *)

\* x is fixed point, d0, d1, r0, r1 are the integers of the source; the result is fixed point
scaleLinear(d0, d1, r0, r1, x) ==
    r0 * Unit + ((x - d0 * Unit) * (r1 - r0)) \div (d1 - d0)

twelve(x) == scaleLinear(0, 12, 0, 360, x)

\* a scale of sixty whose domain ends at the last tick, 59
sixtyOffByOne(x) == scaleLinear(0, 59, 0, 360, x)

sixty(x) == scaleLinear(0, 60, 0, 360, x)

Hands == {"hour", "minute", "second"}

\* handData[i].scale
scaleOf(hand, x) == IF hand = "hour" THEN twelve(x) ELSE sixty(x)

\* the initial handData: value 0 for each hand
handData0 == [hand \in Hands |-> 0]

\* updateData with new Date() = t
updateData(t) ==
    [hand \in Hands |->
        CASE hand = "hour" -> (t.h % 12) * Unit + (t.m * Unit) \div 60
          [] hand = "minute" -> t.m * Unit
          [] hand = "second" -> t.s * Unit]

\* the angle each hand is asked to rotate to: d.scale(d.value)
targets(data) == [hand \in Hands |-> scaleOf(hand, data[hand])]

----------------------------------------------------------------------------
(* Face Builder *)

range(start, stop, step) == {d \in start..(stop - 1) : (d - start) % step = 0}

buildFace ==
    [secondTicks  |-> [d \in range(0, 60, 1) |-> sixty(d * Unit)],
     secondLabels |-> [d \in range(5, 61, 5) |-> sixty(d * Unit)],
     hourTicks    |-> [d \in range(0, 12, 1) |-> twelve(d * Unit)],
     hourLabels   |-> [d \in range(3, 13, 3) |-> twelve(d * Unit)]]

----------------------------------------------------------------------------
(* Hand Animator *)

\* the eased progress, in quarters, at frame i of an elastic transition: it
\* overshoots the target, then undershoots it, and settles at the last frame
easeQuarters(i) == IF i % 2 = 1 THEN 5 ELSE 3

tween(from, to, i) ==
    [hand \in Hands |-> from[hand] + ((to[hand] - from[hand]) * easeQuarters(i)) \div 4]

\* moveHands: a transition of every line under #clock-hands to its target.  The
\* selection is made in the document: with the svg removed it is empty and
\* nothing is scheduled.  A transition scheduled earlier and not yet started is
\* cancelled by the newer one.
moveHands(data) ==
    IF attached'
    THEN /\ pending' = Some(targets(data))
         /\ interrupted' = (interrupted \/ pending # None)
    ELSE UNCHANGED <<pending, interrupted>>

\* a mount that builds the face and starts the interval, without the immediate
\* updateData() and moveHands()
MountWithoutUpdate(t) ==
    /\ lifecycle = "unmounted"
    /\ lifecycle' = "mounted"
    /\ face' = Some(buildFace)
    /\ attached' = TRUE
    /\ attr' = Some(targets(handData0))
    /\ interval' = "active"
    /\ UNCHANGED <<now, handData, pending, interrupted, active, periods, fired>>

\* the effect body, lines 30-194: build the face and the hands at value 0, one
\* immediate update and move, then start the interval
Mount(t) ==
    /\ lifecycle = "unmounted"
    /\ lifecycle' = "mounted"
    /\ face' = Some(buildFace)
    /\ attached' = TRUE
    /\ attr' = Some(targets(handData0))
    /\ now' = Some(t)
    /\ handData' = updateData(t)
    /\ moveHands(handData')
    /\ interval' = "active"
    /\ UNCHANGED <<active, periods, fired>>

\* a start that lets a running transition go on and drops the newer request
StartTransitionKeepsRunning ==
    /\ pending # None
    /\ active' = IF active # None
                 THEN active
                 ELSE Some([from |-> Get(attr), to |-> Get(pending), frame |-> 0])
    /\ pending' = None
    /\ UNCHANGED <<lifecycle, now, handData, face, attached, attr, interrupted, interval,
                   periods, fired>>

\* the scheduled transition starts: it interrupts the running one and tweens
\* from the attribute's value at this moment
StartTransition ==
    /\ pending # None
    /\ active' = Some([from |-> Get(attr), to |-> Get(pending), frame |-> 0])
    /\ pending' = None
    /\ interrupted' = (interrupted \/ active # None)
    /\ UNCHANGED <<lifecycle, now, handData, face, attached, attr, interval, periods, fired>>

\* one frame of the running transition; the last one leaves the target angle
FrameStep ==
    /\ active # None
    /\ IF Get(active).frame < Frames
       THEN /\ attr' = Some(tween(Get(active).from, Get(active).to, Get(active).frame + 1))
            /\ active' = Some([Get(active) EXCEPT !.frame = @ + 1])
       ELSE /\ attr' = Some(Get(active).to)
            /\ active' = None
    /\ UNCHANGED <<lifecycle, now, handData, face, attached, pending, interrupted,
                   interval, periods, fired>>

\* one second passes; the interval callback (updateData, moveHands) runs if the
\* timer is still set
Tick(t) ==
    /\ lifecycle # "unmounted"
    /\ periods < MaxPeriods
    /\ periods' = periods + 1
    /\ IF interval = "active"
       THEN /\ now' = Some(t)
            /\ handData' = updateData(t)
            /\ attached' = attached
            /\ moveHands(handData')
            /\ fired' = fired + 1
       ELSE UNCHANGED <<now, handData, attached, pending, interrupted, fired>>
    /\ UNCHANGED <<lifecycle, face, attr, active, interval>>

\* a cleanup that removes the svg and leaves the interval running
TeardownKeepsInterval ==
    /\ lifecycle = "mounted"
    /\ lifecycle' = "torn"
    /\ attached' = FALSE
    /\ UNCHANGED <<now, handData, face, attr, pending, active, interrupted, interval,
                   periods, fired>>

\* the cleanup of the effect: clearInterval, and the svg leaves the document
Teardown ==
    /\ lifecycle = "mounted"
    /\ lifecycle' = "torn"
    /\ interval' = "cleared"
    /\ attached' = FALSE
    /\ UNCHANGED <<now, handData, face, attr, pending, active, interrupted, periods, fired>>

----------------------------------------------------------------------------
(* Phrase Translator *)

\* the table of lines 6-11 in key order; a key "min-max" is kept as its two
\* numbers, which is what key.split("-").map(Number) makes of it
rangeMapping ==
    << [min |-> 1,  max |-> 24, value |-> "nach"],
       [min |-> 25, max |-> 29, value |-> "vor halb"],
       [min |-> 31, max |-> 35, value |-> "nach halb"],
       [min |-> 36, max |-> 59, value |-> "vor"] >>

\* the value of the first key whose range holds value; None (undefined) if no key does
getValueFromRange(value) ==
    LET hits == {i \in DOMAIN rangeMapping :
                    value >= rangeMapping[i].min /\ value <= rangeMapping[i].max}
    IN  IF hits = {}
        THEN None
        ELSE Some(rangeMapping[CHOOSE i \in hits : \A j \in hits : i <= j].value)

\* Math.round of a number given as a fraction num / den, den > 0: floor(x + 1/2)
round(num, den) == (2 * num + den) \div (2 * den)

\* const hours = Math.round((now.getHours() % 12) + (now.getMinutes() - 5) / 60)
spokenHours(t) == round((t.h % 12) * 60 + (t.m - 5), 60)

\* the minute as read, not folded
spokenMinutesUnfolded(t) == t.m

\* const minutes = now.getMinutes() > 30 ? 60 - now.getMinutes() : now.getMinutes()
spokenMinutes(t) == IF t.m > 30 THEN 60 - t.m ELSE t.m

\* what a template literal makes of an optional string
interpolate(o) == IF o = None THEN "undefined" ELSE Get(o)

\* `Es ist ${minutes} ${getValueFromRange(minutes)} ${hours}`, as its four parts
phrase(t) ==
    << "Es ist", spokenMinutes(t), interpolate(getValueFromRange(spokenMinutes(t))),
       spokenHours(t) >>

----------------------------------------------------------------------------
(* Speech: the voice list, the selection, the Speak button *)

\* clicks of the Speak button
MaxClicks == 2
\* change events of the select
MaxSelects == 2
\* voices the platform can offer
NumVoices == 2

VoiceName(k) == <<"voice", k>>

Voice(k) == [name |-> VoiceName(k), lang |-> IF k % 2 = 1 THEN "de-DE" ELSE "en-US"]

\* window.speechSynthesis.getVoices() when the platform offers n voices
getVoices(n) == [k \in 1..n |-> Voice(k)]

\* the second effect, lines 203-217
VoicesEffect ==
    /\ ~voicesEffect
    /\ voicesEffect' = TRUE
    /\ IF platformVoices > 0
       THEN /\ voices' = Some(getVoices(platformVoices))
            /\ UNCHANGED onvoiceschanged
       ELSE /\ onvoiceschanged' = hasVoicesChanged
            /\ UNCHANGED voices
    /\ UNCHANGED <<platformVoices, hasVoicesChanged, language, activeVoice, clickedAt,
                   utterance, clicks, speakCalls, selects, eventValue>>

\* the platform's voice list changes to n voices; the handler of lines 212-215
\* runs if it is installed
VoicesChanged(n) ==
    /\ n # platformVoices
    /\ platformVoices' = n
    /\ IF onvoiceschanged
       THEN voices' = Some(getVoices(n))
       ELSE UNCHANGED voices
    /\ UNCHANGED <<hasVoicesChanged, voicesEffect, onvoiceschanged, language, activeVoice,
                   clickedAt, utterance, clicks, speakCalls, selects, eventValue>>

\* voices?.find((voice) => voice.name === name): None when there is no list or no match
find(list, name) ==
    IF list = None
    THEN None
    ELSE LET hits == {i \in DOMAIN Get(list) : Get(list)[i].name = name}
         IN  IF hits = {}
             THEN None
             ELSE Some(Get(list)[CHOOSE i \in hits : \A j \in hits : i <= j])

\* the onChange handler of the select, lines 249-257
SelectChange(name) ==
    /\ selects < MaxSelects
    /\ selects' = selects + 1
    /\ eventValue' = Some(name)
    /\ IF find(voices, name) = None
       THEN UNCHANGED <<activeVoice, language>>
       ELSE /\ activeVoice' = find(voices, name)
            /\ language' = Get(find(voices, name)).lang
    /\ UNCHANGED <<platformVoices, hasVoicesChanged, voicesEffect, onvoiceschanged, voices,
                   clickedAt, utterance, clicks, speakCalls>>

\* a speak that gives up when no voice has been selected
speakNeedsVoice(text) ==
    IF activeVoice = None
    THEN UNCHANGED <<utterance, speakCalls>>
    ELSE /\ utterance' = Some([text |-> text, voice |-> activeVoice])
         /\ speakCalls' = speakCalls + 1

\* speak(text), lines 219-227: one utterance, with the active voice if there is
\* one (voice None: the platform's default voice), handed to speechSynthesis.speak
speak(text) ==
    /\ utterance' = Some([text |-> text, voice |-> activeVoice])
    /\ speakCalls' = speakCalls + 1

\* onClickHandler, lines 229-243, with new Date() = t
onClickHandler(t) ==
    /\ clicks < MaxClicks
    /\ clicks' = clicks + 1
    /\ clickedAt' = Some(t)
    /\ speak(phrase(t))
    /\ UNCHANGED <<platformVoices, hasVoicesChanged, voicesEffect, onvoiceschanged, voices,
                   language, activeVoice, selects, eventValue>>

----------------------------------------------------------------------------
(* Specifications *)

ClockInit ==
    /\ lifecycle = "unmounted"
    /\ now = None
    /\ handData = handData0
    /\ face = None
    /\ attached = FALSE
    /\ attr = None
    /\ pending = None
    /\ active = None
    /\ interrupted = FALSE
    /\ interval = "none"
    /\ periods = 0
    /\ fired = 0

SpeechIdle ==
    /\ platformVoices = 0
    /\ hasVoicesChanged = TRUE
    /\ voicesEffect = FALSE
    /\ onvoiceschanged = FALSE
    /\ voices = None
    /\ language = "en-US"
    /\ activeVoice = None
    /\ clickedAt = None
    /\ utterance = None
    /\ clicks = 0
    /\ speakCalls = 0
    /\ selects = 0
    /\ eventValue = None

Init == ClockInit /\ SpeechIdle

Next ==
    \/ \E t \in SampleTimes : Mount(t) /\ UNCHANGED speechVars
    \/ StartTransition /\ UNCHANGED speechVars
    \/ FrameStep /\ UNCHANGED speechVars
    \/ \E t \in SampleTimes : Tick(t) /\ UNCHANGED speechVars
    \/ Teardown /\ UNCHANGED speechVars

\* the clock face and the hand animator
Spec == Init /\ [][Next]_vars

SpeechInit ==
    /\ ClockInit
    /\ platformVoices \in 0..NumVoices
    /\ hasVoicesChanged \in BOOLEAN
    /\ voicesEffect = FALSE
    /\ onvoiceschanged = FALSE
    /\ voices = None
    /\ language = "en-US"
    /\ activeVoice = None
    /\ clickedAt = None
    /\ utterance = None
    /\ clicks = 0
    /\ speakCalls = 0
    /\ selects = 0
    /\ eventValue = None

NextSpeech ==
    \/ VoicesEffect /\ UNCHANGED clockVars
    \/ \E n \in 0..NumVoices : VoicesChanged(n) /\ UNCHANGED clockVars
    \/ \E k \in 0..NumVoices : SelectChange(VoiceName(k)) /\ UNCHANGED clockVars
    \/ \E t \in SampleTimes : onClickHandler(t) /\ UNCHANGED clockVars

\* the voice list, the select and the Speak button, at the sampled clock readings
SpecSpeech == SpeechInit /\ [][NextSpeech]_vars

NextPhrase == \E t \in AllTimes : onClickHandler(t) /\ UNCHANGED clockVars

\* the Speak button at every hour and minute of the day
SpecPhrase == Init /\ [][NextPhrase]_vars

----------------------------------------------------------------------------
(* Properties *)

\* what the document shows of the hands: their angles while the svg is in it
Rendered == IF attached THEN attr ELSE None

\* the angles the most recent moveHands asked for, if a transition is under way
Requested ==
    IF pending # None THEN pending
    ELSE IF active # None THEN Some(Get(active).to)
    ELSE None

AtRest == pending = None /\ active = None

\* C1 as stated: once the cleanup has run nothing changes any more: not the
\* hands' values, not the rendered angles, the interval callback does not run,
\* and no transition fires (none starts, none paints a frame).
NothingFiresAfterTeardown ==
    [][lifecycle = "torn" =>
          /\ handData' = handData
          /\ Rendered' = Rendered
          /\ fired' = fired
          /\ pending' = pending
          /\ active' = active
          /\ attr' = attr]_vars

\* C1 as amended: once the cleanup has run, however many periods elapse, the
\* interval is cleared and its callback does not run, the hands' values and the
\* rendered angles do not change and no new transition is requested; only a
\* transition requested before the cleanup may still start and run out, on the
\* hand lines that are no longer in the document.
TeardownQuiet ==
    [][lifecycle = "torn" =>
          /\ lifecycle' = "torn"
          /\ interval = "cleared" /\ interval' = "cleared"
          /\ handData' = handData
          /\ now' = now
          /\ fired' = fired
          /\ Rendered = None /\ Rendered' = None
          /\ pending' \in {pending, None}]_vars

\* two periods have elapsed after the cleanup of a widget whose callback had run
TornAndTimePassed ==
    /\ lifecycle = "torn"
    /\ fired >= 1
    /\ periods >= fired + 2

\* C2: a request made before the previous transition completed supersedes it:
\* the transition under way always aims at scale(value) of the latest
\* updateData, and a hand at rest is at that angle.
SupersededRestsAtLatest ==
    lifecycle # "unmounted" =>
        /\ Requested # None => Get(Requested) = targets(handData)
        /\ AtRest => Get(attr) = targets(handData)

\* the hands are at rest after a transition was superseded by a later tick's request
SupersededAndAtRest ==
    /\ lifecycle = "mounted"
    /\ interrupted
    /\ fired >= 1
    /\ AtRest
    /\ Get(attr) # targets(handData0)

\* C6: from the end of mount on the hands' values are those of a clock reading
\* (one update has read the clock), the move to their angles has been requested
\* before any periodic tick, and the interval is running.
MountShowsClockReading ==
    lifecycle = "mounted" =>
        /\ now # None
        /\ handData = updateData(Get(now))
        /\ interval = "active"
        /\ fired = 0 =>
              \/ Requested = Some(targets(handData))
              \/ AtRest /\ attr = Some(targets(handData))

\* just mounted, no periodic tick yet: the values are not the default zeros and
\* the move to their angles is scheduled
MountedBeforeFirstTick ==
    /\ lifecycle = "mounted"
    /\ fired = 0
    /\ periods = 0
    /\ handData # handData0
    /\ pending = Some(targets(handData))

\* the values a scale of domain 0..max is applied to, in fixed point
Domain(max) == 0..(max * Unit)

\* C7: both scales are linear, degrees = value / domainMax * 360, with angle 0
\* at 0 and 360 at the domain's end; the second ticks drawn are 6 degrees apart,
\* the hour ticks 30, and the hands are sent to the linear angle of their value.
\* (The scales do not depend on the state: their whole domains are gone through
\* once, before mount.)
ScalesAreLinear ==
    /\ lifecycle = "unmounted" =>
          /\ \A x \in Domain(12) : twelve(x) * 12 = x * 360
          /\ \A x \in Domain(60) : sixty(x) * 60 = x * 360
          /\ twelve(0) = 0 /\ twelve(12 * Unit) = 360 * Unit
          /\ sixty(0) = 0 /\ sixty(60 * Unit) = 360 * Unit
    /\ face # None =>
          /\ \A d \in 0..58 :
                Get(face).secondTicks[d + 1] - Get(face).secondTicks[d] = 6 * Unit
          /\ \A d \in 0..10 :
                Get(face).hourTicks[d + 1] - Get(face).hourTicks[d] = 30 * Unit
          /\ Get(face).secondTicks[0] = 0 /\ Get(face).hourTicks[0] = 0
          /\ Get(face).secondLabels[60] = 360 * Unit
          /\ Get(face).hourLabels[12] = 360 * Unit
    /\ Requested # None =>
          /\ Get(Requested)["hour"] * 12 = handData["hour"] * 360
          /\ Get(Requested)["minute"] * 60 = handData["minute"] * 360
          /\ Get(Requested)["second"] * 60 = handData["second"] * 360

\* the face is drawn and the hands are sent to the angles of 7:13:17, the hour
\* hand to 216.5 degrees
FaceDrawnHandsRequested ==
    /\ face # None
    /\ Get(face).secondTicks[59] = 354 * Unit
    /\ Requested # None
    /\ handData["hour"] = 7 * Unit + 13
    /\ 2 * Get(Requested)["hour"] = 433 * Unit

\* the voices the select lists
Listed == IF voices = None THEN {} ELSE {Get(voices)[i] : i \in DOMAIN Get(voices)}

\* C9: every Speak action calls the speech capability exactly once, with the
\* phrase of the time it read and with the active voice if there is one, with no
\* voice otherwise; a change event naming a listed voice makes it the active
\* voice and shows its language tag, one naming no listed voice changes neither.
SpeakOnceSelectListed ==
    [][/\ clicks' # clicks =>
            /\ speakCalls' = speakCalls + 1
            /\ utterance' = Some([text |-> phrase(Get(clickedAt')), voice |-> activeVoice])
       /\ clicks' = clicks => speakCalls' = speakCalls /\ utterance' = utterance
       /\ selects' # selects =>
            LET named == {v \in Listed : v.name = Get(eventValue')}
            IN  IF named = {}
                THEN activeVoice' = activeVoice /\ language' = language
                ELSE /\ activeVoice' \in {Some(v) : v \in named}
                     /\ language' = Get(activeVoice').lang]_vars

\* a phrase was spoken with no voice selected (default voice), a change event
\* naming no listed voice was handled, and a later one selected a German voice
SpokeWithoutVoiceThenSelected ==
    /\ speakCalls >= 1
    /\ utterance # None
    /\ Get(utterance).voice = None
    /\ selects >= 2
    /\ activeVoice # None
    /\ language = "de-DE"

\* the parts of the last phrase spoken
SpokenText == Get(utterance).text

\* C10: the minute offset looked up is in 0..30, so the lookup gives the phrase
\* of range 1-24, that of range 25-29 or nothing (0 and 30), never those of
\* ranges 31-35 and 36-59; minutes m and 60 - m get the same preposition phrase.
OffsetsAreFolded ==
    /\ clickedAt # None =>
          /\ SpokenText[2] \in 0..30
          /\ SpokenText[2] \in 1..24 => SpokenText[3] = rangeMapping[1].value
          /\ SpokenText[2] \in 25..29 => SpokenText[3] = rangeMapping[2].value
          /\ SpokenText[2] \in {0, 30} => SpokenText[3] = "undefined"
          /\ SpokenText[3] \notin {rangeMapping[3].value, rangeMapping[4].value}
          /\ SpokenText = phrase(Get(clickedAt))
    /\ (clickedAt # None /\ Get(clickedAt).m \in 1..59) =>
          SpokenText[3] = phrase(Time(Get(clickedAt).h, 60 - Get(clickedAt).m, 0))[3]

\* the button was pressed at a quarter to: offset 15, looked up in range 1-24
SpokenAtQuarterTo ==
    /\ clickedAt # None
    /\ Get(clickedAt).m = 45
    /\ SpokenText[2] = 15
    /\ SpokenText[3] = "nach"

\* the English of the spec for the German words of the code
Gloss(word) ==
    CASE word = "Es ist" -> "It is"
      [] word = "nach" -> "past"
      [] word = "vor" -> "to"
      [] word = "vor halb" -> "to half"
      [] word = "nach halb" -> "past half"
      [] OTHER -> word

English(text) == <<Gloss(text[1]), text[2], Gloss(text[3]), text[4]>>

\* C3: at 9:35 the phrase is "It is 25 to 10".
PhraseAt0935 ==
    clickedAt = Some(Time(9, 35, 0)) => English(SpokenText) = <<"It is", 25, "to", 10>>

\* C4: at 11:59 the phrase is "It is 1 to 12".
PhraseAt1159 ==
    clickedAt = Some(Time(11, 59, 0)) => English(SpokenText) = <<"It is", 1, "to", 12>>

\* C5: at minute 0 and at minute 30 the phrase has a defined preposition phrase.
FallbackIsDefined ==
    (clickedAt # None /\ Get(clickedAt).m \in {0, 30}) =>
        /\ getValueFromRange(SpokenText[2]) # None
        /\ SpokenText[3] # "undefined"

\* C8: at every minute 31..59 the spoken hour is (hour mod 12) + 1.
HourAnticipatedPastHalf ==
    (clickedAt # None /\ Get(clickedAt).m \in 31..59) =>
        SpokenText[4] = (Get(clickedAt).h % 12) + 1

====
